---- MODULE Spec2Model ----
(***************************************************************************)
(* The user resource of axum_sqlx (src/users.rs): four handlers, each one  *)
(* parameterized statement against the "users" table, and the translation  *)
(* of the statement's outcome into an HTTP response.                       *)
(*                                                                         *)
(* Strings are modelled by small integers (usernames, emails, bios);       *)
(* Option<T> is <<>> (None) or <<x>> (Some(x)).  A statement is atomic at  *)
(* the store; the handlers of different requests interleave around it.     *)
(* The pool, the network and the store itself are taken to work: the only  *)
(* storage failures modelled are the ones a statement's text can provoke.  *)
(*                                                                         *)
(*   Spec      any number (up to MaxInflight) of requests in flight        *)
(*   SpecOne   one client, one request at a time                           *)
(*   SpecPage  list requests against a store that already holds users      *)
(***************************************************************************)
EXTENDS Integers, Sequences, FiniteSets, TLC

\* ---- bounds of the model
NumNames == 2
NumEmails == 2
NumBios == 2
MaxInflight == 2
MaxPage == 1
MaxRows == 3

\* i32::MAX, the default of Pagination.limit
I32Max == 2147483647

Usernames == 1..NumNames
Emails == 1..NumEmails
Bios == 1..NumBios
Slots == 1..MaxInflight

\* ---- Option<T>
None == <<>>
Some(x) == <<x>>
Option(S) == {None} \cup {Some(x) : x \in S}
unwrap_or(o, d) == IF o = None THEN d ELSE o[1]

\* ---- request payloads
User == [username : Usernames, email : Emails, bio : Bios]
UserUpdate == [email : Option(Emails), bio : Option(Bios)]
Pagination(m) == [offset : Option((-1)..m), limit : Option((-1)..m)]

\* the routing table: the requests a client can issue
router ==
    [op : {"get_user"}, name : Usernames]
    \cup [op : {"get_users"}, pagination : Pagination(MaxPage)]
    \cup [op : {"update_user"}, name : Usernames, payload : UserUpdate]
    \cup [op : {"create_user"}, payload : User]

\* ---- crate::error: the error kinds and their responses
NotFound == [kind |-> "NotFound"]
unprocessable_entity(field, msg) ==
    [kind |-> "UnprocessableEntity", errors |-> <<field, msg>>]
\* From<sqlx::Error>, what the ? operator applies to a storage failure
Sqlx(constraint) == [kind |-> "Sqlx", constraint |-> constraint]

\* ResultExt::on_constraint: a failure naming this constraint is rewritten,
\* anything else passes through
on_constraint(res, name, mapped) ==
    IF ~res.ok /\ res.err.kind = "Sqlx" /\ res.err.constraint = Some(name)
    THEN [res EXCEPT !.err = mapped]
    ELSE res

Response(status, errors, body) ==
    [status |-> status, errors |-> errors, body |-> body]

\* IntoResponse for Error: 404, 422 with the field-keyed map, 500 without detail
into_response(err) ==
    CASE err.kind = "NotFound" -> Response(404, <<>>, <<>>)
      [] err.kind = "UnprocessableEntity" -> Response(422, err.errors, <<>>)
      [] OTHER -> Response(500, <<>>, <<>>)

\* ---- the store: table "users" with its two uniqueness constraints
Ok(table, rows) == [ok |-> TRUE, table |-> table, rows |-> rows]
Err(table, constraint) ==
    [ok |-> FALSE, table |-> table, err |-> Sqlx(constraint)]

\* (variant: the email constraint is missing from the schema)
UniqueViolation_username_only(tbl) ==
    IF \E i, j \in DOMAIN tbl : i # j /\ tbl[i].username = tbl[j].username
    THEN Some("user_username_key")
    ELSE None

\* the constraint a table content breaks, the username index checked first
UniqueViolation(tbl) ==
    IF \E i, j \in DOMAIN tbl : i # j /\ tbl[i].username = tbl[j].username
    THEN Some("user_username_key")
    ELSE IF \E i, j \in DOMAIN tbl : i # j /\ tbl[i].email = tbl[j].email
         THEN Some("user_email_key")
         ELSE None

\* a statement that breaks a constraint is rolled back as a whole
Commit(old, new, rows) ==
    IF UniqueViolation(new) = None
    THEN Ok(new, rows)
    ELSE Err(old, UniqueViolation(new))

\* INSERT INTO users (username, email, bio) VALUES ($1, $2, $3)
Insert(tbl, username, email, bio) ==
    Commit(tbl,
           Append(tbl, [username |-> username, email |-> email, bio |-> bio]),
           1)

\* (variant: the parameter is assigned as it is, NULL, written 0, included)
coalesce_assign(a, b) == IF a = None THEN 0 ELSE a[1]

\* SQL coalesce(a, b): a unless it is NULL
coalesce(a, b) == IF a = None THEN b ELSE a[1]

\* (variant: the statement also sets the key column)
update_set_rename(row, email, bio) ==
    [row EXCEPT !.username = IF email = None THEN row.username ELSE email[1],
                !.email = IF email = None THEN row.email ELSE email[1],
                !.bio = IF bio = None THEN row.bio ELSE bio[1]]

\* SET email = coalesce($1, users.email), bio = coalesce($2, users.bio)
update_set(row, email, bio) ==
    [row EXCEPT !.email = coalesce(email, row.email),
                !.bio = coalesce(bio, row.bio)]

\* (variant: the statement has no WHERE clause)
update_where_all(row, name) == TRUE

\* WHERE username = $3
update_where(row, name) == row.username = name

\* UPDATE users SET ... WHERE username = $3
Update(tbl, email, bio, name) ==
    Commit(tbl,
           [i \in DOMAIN tbl |->
               IF update_where(tbl[i], name)
               THEN update_set(tbl[i], email, bio)
               ELSE tbl[i]],
           Cardinality({i \in DOMAIN tbl : update_where(tbl[i], name)}))

\* (variant: the lookup compares the wrong column)
select_where_email(row, name) == row.email = name

\* WHERE username = $1
select_where(row, name) == row.username = name

\* the orders in which an unordered scan can return the rows
Scans(tbl) ==
    {[i \in DOMAIN tbl |-> tbl[p[i]]] : p \in Permutations(DOMAIN tbl)}

\* OFFSET k: drop the first k rows of the scan
RECURSIVE Skip(_, _)
Skip(rows, k) ==
    IF k = 0 \/ rows = <<>> THEN rows ELSE Skip(Tail(rows), k - 1)

\* LIMIT k: return at most k rows
RECURSIVE Take(_, _)
Take(rows, k) ==
    IF k = 0 \/ rows = <<>>
    THEN <<>>
    ELSE <<Head(rows)>> \o Take(Tail(rows), k - 1)

\* SELECT username, email, bio FROM users OFFSET $1 LIMIT $2; the store
\* rejects a negative OFFSET or LIMIT
SelectPage(tbl, offset, limit) ==
    IF offset < 0 \/ limit < 0
    THEN {Err(tbl, None)}
    ELSE {Ok(tbl, Take(Skip(scan, offset), limit)) : scan \in Scans(tbl)}

\* ---- the handlers: the responses a request can get from a table content
get_user(tbl, name) ==
    LET found == {i \in DOMAIN tbl : select_where(tbl[i], name)}
    IN  IF found = {}
        THEN {into_response(NotFound)}
        ELSE {Response(200, <<>>, <<tbl[i]>>) : i \in found}

\* (variant: the two parameters are bound in the wrong order)
get_users_bind_swapped(pagination) ==
    [offset |-> unwrap_or(pagination.limit, I32Max),
     limit |-> unwrap_or(pagination.offset, 0)]

\* .bind(offset.unwrap_or_default()).bind(limit.unwrap_or(i32::MAX))
get_users_bind(pagination) ==
    [offset |-> unwrap_or(pagination.offset, 0),
     limit |-> unwrap_or(pagination.limit, I32Max)]

get_users(tbl, pagination) ==
    LET b == get_users_bind(pagination)
    IN  {IF res.ok
         THEN Response(200, <<>>, res.rows)
         ELSE into_response(res.err) : res \in SelectPage(tbl, b.offset, b.limit)}

\* (variant: the two constraints are mapped to each other's field)
create_user_result_swapped(res) ==
    on_constraint(
        on_constraint(res, "user_username_key",
                      unprocessable_entity("email", "already taken")),
        "user_email_key",
        unprocessable_entity("username", "already taken"))

\* .on_constraint("user_username_key", ..).on_constraint("user_email_key", ..)
create_user_result(res) ==
    on_constraint(
        on_constraint(res, "user_username_key",
                      unprocessable_entity("username", "already taken")),
        "user_email_key",
        unprocessable_entity("email", "already taken"))

\* (variant: the statement's result is dropped, the handler always answers 201)
create_user_unchecked(tbl, payload) ==
    LET res == Insert(tbl, payload.username, payload.email, payload.bio)
    IN  [table |-> res.table, resp |-> Response(201, <<>>, <<>>)]

create_user(tbl, payload) ==
    LET res == create_user_result(
                   Insert(tbl, payload.username, payload.email, payload.bio))
    IN  [table |-> res.table,
         resp |-> IF res.ok
                  THEN Response(201, <<>>, <<>>)
                  ELSE into_response(res.err)]

\* (variant: a statement that matched no row answers NotFound)
update_user_result_checked(res) ==
    IF res.ok
    THEN IF res.rows = 0
         THEN into_response(NotFound)
         ELSE Response(202, <<>>, <<>>)
    ELSE into_response(res.err)

\* (variant: the email constraint is mapped as create maps it)
update_user_result_mapped(res) ==
    IF res.ok
    THEN Response(202, <<>>, <<>>)
    ELSE into_response(
             on_constraint(res, "user_email_key",
                           unprocessable_entity("email", "already taken")).err)

\* .execute(&pool).await?; Ok(StatusCode::ACCEPTED)
update_user_result(res) ==
    IF res.ok THEN Response(202, <<>>, <<>>) ELSE into_response(res.err)

update_user(tbl, name, payload) ==
    LET res == Update(tbl, payload.email, payload.bio, name)
    IN  [table |-> res.table, resp |-> update_user_result(res)]

VARIABLES
    users,   \* the rows of table "users", in insertion order
    slots,   \* the requests in flight: awaiting their statement, or answered
    last     \* the slot whose statement the store executed last (0: none)

vars == <<users, slots, last>>

Idle == [pc |-> "idle"]
Awaiting(req) == [pc |-> "awaiting", req |-> req]
Done(req, pre, resp) == [pc |-> "done", req |-> req, pre |-> pre, resp |-> resp]

Init ==
    /\ users = <<>>
    /\ slots = [s \in Slots |-> Idle]
    /\ last = 0

\* a client sends a request; its handler starts and awaits the statement
Request(s) ==
    /\ slots[s].pc = "idle"
    /\ \E req \in router : slots' = [slots EXCEPT ![s] = Awaiting(req)]
    /\ UNCHANGED <<users, last>>

\* the response reaches the client
Respond(s) ==
    /\ slots[s].pc = "done"
    /\ slots' = [slots EXCEPT ![s] = Idle]
    /\ last' = IF last = s THEN 0 ELSE last
    /\ UNCHANGED users

\* the statement of a fetch-one runs and its handler answers
GetUser(s) ==
    /\ slots[s].pc = "awaiting"
    /\ slots[s].req.op = "get_user"
    /\ \E resp \in get_user(users, slots[s].req.name) :
           slots' = [slots EXCEPT ![s] = Done(@.req, users, resp)]
    /\ last' = s
    /\ UNCHANGED users

\* the statement of a list-paged runs and its handler answers
GetUsers(s) ==
    /\ slots[s].pc = "awaiting"
    /\ slots[s].req.op = "get_users"
    /\ \E resp \in get_users(users, slots[s].req.pagination) :
           slots' = [slots EXCEPT ![s] = Done(@.req, users, resp)]
    /\ last' = s
    /\ UNCHANGED users

\* the statement of a create runs and its handler answers
CreateUser(s) ==
    /\ slots[s].pc = "awaiting"
    /\ slots[s].req.op = "create_user"
    /\ LET out == create_user(users, slots[s].req.payload)
       IN  /\ users' = out.table
           /\ slots' = [slots EXCEPT ![s] = Done(@.req, users, out.resp)]
    /\ last' = s

\* the statement of a patch runs and its handler answers
UpdateUser(s) ==
    /\ slots[s].pc = "awaiting"
    /\ slots[s].req.op = "update_user"
    /\ LET out == update_user(users, slots[s].req.name, slots[s].req.payload)
       IN  /\ users' = out.table
           /\ slots' = [slots EXCEPT ![s] = Done(@.req, users, out.resp)]
    /\ last' = s

Next ==
    \E s \in Slots :
        \/ Request(s)
        \/ GetUser(s)
        \/ GetUsers(s)
        \/ CreateUser(s)
        \/ UpdateUser(s)
        \/ Respond(s)

Spec == Init /\ [][Next]_vars

\* ---- one client, one request at a time
NextOne ==
    \/ Request(1)
    \/ GetUser(1)
    \/ GetUsers(1)
    \/ CreateUser(1)
    \/ UpdateUser(1)
    \/ Respond(1)

SpecOne == Init /\ [][NextOne]_vars

\* ---- list requests against a store that already holds up to MaxRows users
PageTables ==
    {[i \in 1..k |-> [username |-> i, email |-> i, bio |-> b]] :
        k \in 0..MaxRows, b \in Bios}

InitPage ==
    /\ users \in PageTables
    /\ slots = [s \in Slots |-> Idle]
    /\ last = 0

RequestPage ==
    /\ slots[1].pc = "idle"
    /\ \E pagination \in Pagination(MaxRows) :
           slots' = [slots EXCEPT
                        ![1] = Awaiting([op |-> "get_users",
                                         pagination |-> pagination])]
    /\ UNCHANGED <<users, last>>

NextPage ==
    \/ RequestPage
    \/ GetUsers(1)
    \/ Respond(1)

SpecPage == InitPage /\ [][NextPage]_vars

\* ---- the vocabulary of the properties
Stored(tbl, name) == \E i \in DOMAIN tbl : tbl[i].username = name
EmailStored(tbl, email) == \E i \in DOMAIN tbl : tbl[i].email = email
Names(tbl) == {tbl[i].username : i \in DOMAIN tbl}
Min(a, b) == IF a <= b THEN a ELSE b
Max(a, b) == IF a >= b THEN a ELSE b

\* slot s holds an answered request of this kind
Answered(s, op) == slots[s].pc = "done" /\ slots[s].req.op = op
\* ... and no statement ran after its own: users is the table it left behind
Ran(s, op) == last = s /\ Answered(s, op)

Accepted == Response(202, <<>>, <<>>)
AlreadyTaken(field) == Response(422, <<field, "already taken">>, <<>>)

\* C1: in every reachable state no two stored rows share a username and no
\* two stored rows share an email, whatever creates and patches (with or
\* without an email) ran and however they interleaved.
C1_Unique ==
    \A i, j \in DOMAIN users :
        i # j => /\ users[i].username # users[j].username
                 /\ users[i].email # users[j].email

\* two users are stored and a patch has just tried to give one of them the
\* other's email
C1_Witness ==
    /\ Len(users) >= 2
    /\ \E s \in Slots :
        /\ Ran(s, "update_user")
        /\ Stored(slots[s].pre, slots[s].req.name)
        /\ slots[s].req.payload.email # None
        /\ \E i \in DOMAIN users :
            /\ users[i].username # slots[s].req.name
            /\ users[i].email = slots[s].req.payload.email[1]

\* two answered creates, in flight together, that carry the same username
SameNameCreates(s, t) ==
    /\ s # t
    /\ Answered(s, "create_user")
    /\ Answered(t, "create_user")
    /\ slots[s].req.payload.username = slots[t].req.payload.username

\* the create in slot s found neither its username nor its email stored
Clean(s) ==
    /\ ~Stored(slots[s].pre, slots[s].req.payload.username)
    /\ ~EmailStored(slots[s].pre, slots[s].req.payload.email)

\* C2 as stated: of two concurrent creates with the same username exactly
\* one is answered 201 and the other 422, never both 201 and never both 422.
C2_ExactlyOne ==
    \A s, t \in Slots :
        SameNameCreates(s, t) =>
            \/ slots[s].resp.status = 201 /\ slots[t].resp.status = 422
            \/ slots[s].resp.status = 422 /\ slots[t].resp.status = 201

\* C2 as amended: of two concurrent creates with the same username at most
\* one is answered 201 and each one that is not is answered 422; exactly one
\* is answered 201 if and only if at least one of them, when its INSERT
\* ran, found neither its username nor its email stored; otherwise both
\* are answered 422.
C2_AtMostOne ==
    \A s, t \in Slots :
        SameNameCreates(s, t) =>
            /\ ~(slots[s].resp.status = 201 /\ slots[t].resp.status = 201)
            /\ slots[s].resp.status \in {201, 422}
            /\ slots[t].resp.status \in {201, 422}
            /\ (slots[s].resp.status = 201 \/ slots[t].resp.status = 201)
                   <=> (Clean(s) \/ Clean(t))

\* the race: one create of a fresh username won, the other one, in flight
\* with it, was told that the username is taken
C2_Witness ==
    \E s, t \in Slots :
        /\ SameNameCreates(s, t)
        /\ ~Stored(slots[s].pre, slots[s].req.payload.username)
        /\ slots[s].resp.status = 201
        /\ slots[t].resp = AlreadyTaken("username")

\* C3: a create whose username is stored is answered 422 {"username":
\* "already taken"}; a create with a new username whose email is stored is
\* answered 422 {"email": "already taken"}; either way the table is the
\* one the statement found.
C3_Conflict ==
    \A s \in Slots :
        Ran(s, "create_user") =>
            LET p == slots[s].req.payload
                pre == slots[s].pre
            IN  /\ Stored(pre, p.username) =>
                       slots[s].resp = AlreadyTaken("username") /\ users = pre
                /\ (~Stored(pre, p.username) /\ EmailStored(pre, p.email)) =>
                       slots[s].resp = AlreadyTaken("email") /\ users = pre

\* a create with a new username and another user's email has been answered
C3_Witness ==
    \E s \in Slots :
        /\ Ran(s, "create_user")
        /\ ~Stored(slots[s].pre, slots[s].req.payload.username)
        /\ EmailStored(slots[s].pre, slots[s].req.payload.email)

C5_EmptyPatch ==
    \A s \in Slots :
        (/\ Ran(s, "update_user")
         /\ slots[s].req.payload = [email |-> None, bio |-> None]) =>
            /\ users = slots[s].pre
            /\ slots[s].resp = Accepted

\* an empty patch of a stored user has been answered
C5_Witness ==
    \E s \in Slots :
        /\ Ran(s, "update_user")
        /\ slots[s].req.payload = [email |-> None, bio |-> None]
        /\ Stored(slots[s].pre, slots[s].req.name)

\* C6: fetch-one of a username that is not stored is answered 404; of a
\* stored one, 200 with exactly the row stored under that username; it
\* never changes the table.  A create answered 201 has stored exactly its
\* payload, which is therefore what a fetch-one that follows returns.
C6_Fetch ==
    \A s \in Slots :
        /\ Ran(s, "get_user") =>
               LET name == slots[s].req.name
                   pre == slots[s].pre
               IN  /\ users = pre
                   /\ ~Stored(pre, name) =>
                          slots[s].resp = Response(404, <<>>, <<>>)
                   /\ Stored(pre, name) =>
                          /\ slots[s].resp.status = 200
                          /\ \E i \in DOMAIN pre :
                              /\ pre[i].username = name
                              /\ slots[s].resp.body = <<pre[i]>>
        /\ (Ran(s, "create_user") /\ slots[s].resp.status = 201) =>
               users = Append(slots[s].pre, slots[s].req.payload)

\* a fetch-one of one of two stored users has been answered
C6_Witness ==
    \E s \in Slots :
        /\ Ran(s, "get_user")
        /\ Len(slots[s].pre) >= 2
        /\ Stored(slots[s].pre, slots[s].req.name)

\* C7: on a table of n rows list-paged with offset >= 0 (default 0) and
\* limit > 0 (default 2^31 - 1) is answered 200 with exactly
\* min(limit, max(0, n - offset)) rows, each a different stored row; so
\* offset >= n gives no rows, and offset 0, limit 2 on 3 rows gives 2.
C7_Page ==
    \A s \in Slots :
        Ran(s, "get_users") =>
            LET q == slots[s].req.pagination
                offset == IF q.offset = None THEN 0 ELSE q.offset[1]
                limit == IF q.limit = None THEN 2147483647 ELSE q.limit[1]
                pre == slots[s].pre
                n == Len(pre)
                body == slots[s].resp.body
            IN  (offset >= 0 /\ limit > 0) =>
                    /\ slots[s].resp.status = 200
                    /\ users = pre
                    /\ Len(body) = Min(limit, Max(0, n - offset))
                    /\ \E f \in [DOMAIN body -> DOMAIN pre] :
                        /\ \A i, j \in DOMAIN body : i # j => f[i] # f[j]
                        /\ \A i \in DOMAIN body : body[i] = pre[f[i]]
                    /\ offset >= n => body = <<>>
                    /\ (n = 3 /\ offset = 0 /\ limit = 2) => Len(body) = 2

\* offset 0, limit 2 has been answered on a table of 3 rows
C7_Witness ==
    \E s \in Slots :
        /\ Ran(s, "get_users")
        /\ Len(slots[s].pre) = 3
        /\ slots[s].req.pagination = [offset |-> Some(0), limit |-> Some(2)]

\* C8: no step removes or renames a stored row, and the set of stored
\* usernames changes only by the username of a create answered 201.
C8_Persist ==
    [][/\ \A i \in DOMAIN users :
           i \in DOMAIN users' /\ users'[i].username = users[i].username
       /\ Names(users) \subseteq Names(users')
       /\ Names(users') # Names(users) =>
              \E s \in Slots :
                  /\ slots[s].pc = "awaiting"
                  /\ slots[s].req.op = "create_user"
                  /\ slots'[s].pc = "done"
                  /\ slots'[s].resp.status = 201
                  /\ Names(users') =
                         Names(users) \cup {slots[s].req.payload.username}
      ]_vars

\* a patch that changes the email of a stored user has been accepted
C8_Witness ==
    \E s \in Slots :
        /\ Ran(s, "update_user")
        /\ slots[s].resp.status = 202
        /\ slots[s].req.payload.email # None
        /\ \E i \in DOMAIN slots[s].pre :
            /\ slots[s].pre[i].username = slots[s].req.name
            /\ slots[s].pre[i].email # slots[s].req.payload.email[1]
        /\ Stored(users, slots[s].req.name)

\* C9: a patch to a username that is not stored is answered 202, not 404,
\* and leaves the table as it found it, whatever its payload.
C9_PatchAbsent ==
    \A s \in Slots :
        (Ran(s, "update_user") /\ ~Stored(slots[s].pre, slots[s].req.name)) =>
            /\ slots[s].resp = Accepted
            /\ users = slots[s].pre

\* a patch that supplies both fields for an absent username has been
\* answered on a table that holds another user
C9_Witness ==
    \E s \in Slots :
        /\ Ran(s, "update_user")
        /\ ~Stored(slots[s].pre, slots[s].req.name)
        /\ slots[s].pre # <<>>
        /\ slots[s].req.payload.email # None
        /\ slots[s].req.payload.bio # None

\* the patch in slot s names a stored user and another user's email
PatchConflict(s) ==
    /\ Ran(s, "update_user")
    /\ Stored(slots[s].pre, slots[s].req.name)
    /\ slots[s].req.payload.email # None
    /\ \E i \in DOMAIN slots[s].pre :
        /\ slots[s].pre[i].username # slots[s].req.name
        /\ slots[s].pre[i].email = slots[s].req.payload.email[1]

\* C10: a patch of a stored user that supplies another user's email is
\* answered 500 with no field-keyed body, and the table is the one it
\* found, the bio of the same payload not applied either.
C10_PatchConflict ==
    \A s \in Slots :
        PatchConflict(s) =>
            /\ slots[s].resp = Response(500, <<>>, <<>>)
            /\ users = slots[s].pre

\* such a patch, also carrying a bio different from the stored one, has
\* been answered
C10_Witness ==
    \E s \in Slots :
        /\ PatchConflict(s)
        /\ slots[s].req.payload.bio # None
        /\ \E i \in DOMAIN slots[s].pre :
            /\ slots[s].pre[i].username = slots[s].req.name
            /\ slots[s].pre[i].bio # slots[s].req.payload.bio[1]
====
